---- MODULE Spec2Model ----
(***************************************************************************)
(* Model of src/C/bot.c: findBestBuySellTimes (lines 15-34) and the part   *)
(* of main that calls it and prints the result (lines 78-87).              *)
(*                                                                         *)
(* Prices are C floats in the source.  They are modelled as integers (a    *)
(* price in whole ticks): on such values the float comparisons and the     *)
(* float subtraction of line 27 are exact.  NaN and infinities are outside *)
(* the model.  Array indices are the source's 0-based indices.             *)
(***************************************************************************)
EXTENDS Integers, Sequences, FiniteSets, TLC

\* Bounds of the model.  MaxLen bounds the length n handed to the finder
\* (main hands it HOUR, src/C/bot.c:5); MaxPrice bounds a price.
MaxLen == 4
MaxPrice == 2

PriceVals == 0..MaxPrice

\* Contents an uninitialised int (main's buyTime, sellTime at line 78) may hold.
Junk == {-1, 0, 3}

VARIABLES
    prices,     \* float prices[]: the row handed to the finder, indexed 0..n-1
    n,          \* int n
    pc,         \* position: "call" (line 79), "loop" (line 22), "ret" (line 81),
                \*           "best" (after line 84), "none" (after line 86)
    i,          \* loop index of line 22
    minPrice,   \* float minPrice
    minTime,    \* int minTime
    maxProfit,  \* float maxProfit
    buyTime,    \* main's buyTime, written through *buyTime
    sellTime,   \* main's sellTime, written through *sellTime
    reads,      \* indices of prices[] the finder has read
    writes,     \* non-local locations the finder has stored to
    visited,    \* indices for which the loop body has run, in order
    outcome,    \* how the call ended: "pending" or "returned"
    printed,    \* what main printed: "" / "best" / "none"
    divisor     \* the divisor of the percentage of line 84, once computed

vars == <<prices, n, pc, i, minPrice, minTime, maxProfit, buyTime, sellTime,
          reads, writes, visited, outcome, printed, divisor>>

\* ---------------------------------------------------------------------
\* Helpers
MinOf(S) == CHOOSE x \in S : \A y \in S : x <= y
MaxOf(S) == CHOOSE x \in S : \A y \in S : x >= y

\* The profits of all pairs 0 <= b <= s <= k.
PairProfits(k) ==
    { prices[q[2]] - prices[q[1]] :
        q \in { r \in (0..k) \X (0..k) : r[1] <= r[2] } }

\* ---------------------------------------------------------------------
\* Conditions of the source, one operator each

LoopCondShort(idx, len) == idx < len - 1
\* line 22: i < n
LoopCond(idx, len) == idx < len

NewMinOrEqual(p, mp) == p <= mp
\* line 23: prices[i] < minPrice
NewMin(p, mp) == p < mp

NewMaxOrEqual(profit, best) == profit >= best
\* line 28: profit > maxProfit
NewMax(profit, best) == profit > best

\* ---------------------------------------------------------------------
Init ==
    /\ n \in 0..MaxLen
    /\ prices \in [0..(n-1) -> PriceVals]
    /\ buyTime \in Junk
    /\ sellTime \in Junk
    /\ pc = "call"
    /\ i = -1
    /\ minPrice = -1
    /\ minTime = -1
    /\ maxProfit = -1
    /\ reads = {}
    /\ writes = {}
    /\ visited = <<>>
    /\ outcome = "pending"
    /\ printed = ""
    /\ divisor = -1

\* Lines 16-20 without the two stores through the out-parameters.
EntryNoOutInit ==
    /\ pc = "call"
    /\ \E v \in (IF n > 0 THEN {prices[0]} ELSE PriceVals) : minPrice' = v
    /\ reads' = reads \cup {0}
    /\ minTime' = 0
    /\ maxProfit' = 0
    /\ i' = 1
    /\ pc' = "loop"
    /\ UNCHANGED <<prices, n, buyTime, sellTime, writes, visited, outcome,
                   printed, divisor>>

\* Lines 15-22 (up to the loop's initialisation).  prices[0] is read whatever
\* n is; with n = 0 the read is outside the sequence and yields any value.
Entry ==
    /\ pc = "call"
    /\ \E v \in (IF n > 0 THEN {prices[0]} ELSE PriceVals) : minPrice' = v
    /\ reads' = reads \cup {0}
    /\ minTime' = 0
    /\ maxProfit' = 0
    /\ buyTime' = 0
    /\ sellTime' = 0
    /\ writes' = writes \cup {"*buyTime", "*sellTime"}
    /\ i' = 1
    /\ pc' = "loop"
    /\ UNCHANGED <<prices, n, visited, outcome, printed, divisor>>

\* The loop body with line 25 (minTime = i) left out.
LoopIterNoMinTime ==
    /\ pc = "loop"
    /\ LoopCond(i, n)
    /\ LET p      == prices[i]
           isMin  == NewMin(p, minPrice)
           mp     == IF isMin THEN p ELSE minPrice
           mt     == minTime
           profit == p - mp
           isMax  == NewMax(profit, maxProfit)
       IN  /\ minPrice' = mp
           /\ minTime' = mt
           /\ maxProfit' = IF isMax THEN profit ELSE maxProfit
           /\ buyTime' = IF isMax THEN mt ELSE buyTime
           /\ sellTime' = IF isMax THEN i ELSE sellTime
           /\ writes' = IF isMax THEN writes \cup {"*buyTime", "*sellTime"}
                                 ELSE writes
    /\ reads' = reads \cup {i}
    /\ visited' = Append(visited, i)
    /\ i' = i + 1
    /\ UNCHANGED <<prices, n, pc, outcome, printed, divisor>>

\* The loop body storing the running minimum into prices[i] as well.
LoopIterStoresPrice ==
    /\ pc = "loop"
    /\ LoopCond(i, n)
    /\ LET p      == prices[i]
           isMin  == NewMin(p, minPrice)
           mp     == IF isMin THEN p ELSE minPrice
           mt     == IF isMin THEN i ELSE minTime
           profit == p - mp
           isMax  == NewMax(profit, maxProfit)
       IN  /\ minPrice' = mp
           /\ minTime' = mt
           /\ maxProfit' = IF isMax THEN profit ELSE maxProfit
           /\ buyTime' = IF isMax THEN mt ELSE buyTime
           /\ sellTime' = IF isMax THEN i ELSE sellTime
           /\ prices' = [prices EXCEPT ![i] = mp]
           /\ writes' = (IF isMax THEN writes \cup {"*buyTime", "*sellTime"}
                                  ELSE writes) \cup {"prices"}
    /\ reads' = reads \cup {i}
    /\ visited' = Append(visited, i)
    /\ i' = i + 1
    /\ UNCHANGED <<n, pc, outcome, printed, divisor>>

\* Lines 22-33: one iteration of the loop, the increment included.
LoopIter ==
    /\ pc = "loop"
    /\ LoopCond(i, n)
    /\ LET p      == prices[i]
           isMin  == NewMin(p, minPrice)
           mp     == IF isMin THEN p ELSE minPrice
           mt     == IF isMin THEN i ELSE minTime
           profit == p - mp
           isMax  == NewMax(profit, maxProfit)
       IN  /\ minPrice' = mp
           /\ minTime' = mt
           /\ maxProfit' = IF isMax THEN profit ELSE maxProfit
           /\ buyTime' = IF isMax THEN mt ELSE buyTime
           /\ sellTime' = IF isMax THEN i ELSE sellTime
           /\ writes' = IF isMax THEN writes \cup {"*buyTime", "*sellTime"}
                                 ELSE writes
    /\ reads' = reads \cup {i}
    /\ visited' = Append(visited, i)
    /\ i' = i + 1
    /\ UNCHANGED <<prices, n, pc, outcome, printed, divisor>>

\* Lines 22 and 34: the loop condition fails and the function returns.
LoopExit ==
    /\ pc = "loop"
    /\ ~LoopCond(i, n)
    /\ pc' = "ret"
    /\ outcome' = "returned"
    /\ UNCHANGED <<prices, n, i, minPrice, minTime, maxProfit, buyTime,
                   sellTime, reads, writes, visited, printed, divisor>>

\* Lines 81-84: the profitable branch; line 84 divides by prices[buyTime].
PrintBest ==
    /\ pc = "ret"
    /\ buyTime < sellTime
    /\ divisor' = prices[buyTime]
    /\ printed' = "best"
    /\ pc' = "best"
    /\ UNCHANGED <<prices, n, i, minPrice, minTime, maxProfit, buyTime,
                   sellTime, reads, writes, visited, outcome>>

\* Lines 81, 85-86: the other branch.
PrintNone ==
    /\ pc = "ret"
    /\ ~(buyTime < sellTime)
    /\ printed' = "none"
    /\ pc' = "none"
    /\ UNCHANGED <<prices, n, i, minPrice, minTime, maxProfit, buyTime,
                   sellTime, reads, writes, visited, outcome, divisor>>

Next ==
    \/ Entry
    \/ LoopIter
    \/ LoopExit
    \/ PrintBest
    \/ PrintNone

Spec == Init /\ [][Next]_vars

\* The program is sequential: a step that is enabled is taken.
FairSpec == Init /\ [][Next]_vars /\ WF_vars(Next)

\* ---------------------------------------------------------------------
\* Properties

\* The finder has been entered (lines 16-20 have run).
Entered == pc \in {"loop", "ret", "best", "none"}
\* The finder has returned.
Returned == pc \in {"ret", "best", "none"}
NonEmpty == n >= 1

NonIncreasing == \A k \in 1..(n-1) : prices[k] <= prices[k-1]

\* C1: for a non-empty sequence the returned profit is globally optimal: no
\* pair b <= s has prices[s] - prices[b] greater than the final maxProfit.
C1_GloballyOptimal ==
    (NonEmpty /\ Returned) =>
        \A b \in 0..(n-1) : \A s \in b..(n-1) :
            ~(prices[s] - prices[b] > maxProfit)

C1_Witness ==
    /\ Returned /\ n = 4
    /\ prices[0] = 1 /\ prices[1] = 0 /\ prices[2] = 2 /\ prices[3] = 1
    /\ maxProfit = 2

\* C2: for a non-empty sequence 0 <= buyTime <= sellTime <= n-1 and the
\* profit is >= 0, after every loop iteration and at return.
C2_IndicesInRange ==
    (NonEmpty /\ Entered) =>
        /\ 0 <= buyTime
        /\ buyTime <= sellTime
        /\ sellTime <= n - 1
        /\ maxProfit >= 0

C2_Witness ==
    /\ pc = "loop" /\ n = 4 /\ i = 3
    /\ buyTime = 1 /\ sellTime = 2 /\ maxProfit > 0

\* C3: for a non-empty sequence the profit equals
\* prices[sellTime] - prices[buyTime] for the indices written so far.
C3_ProfitMatchesPair ==
    (NonEmpty /\ Entered) =>
        maxProfit = prices[sellTime] - prices[buyTime]

C3_Witness ==
    /\ Returned /\ n >= 3
    /\ buyTime = 1 /\ sellTime = 2
    /\ maxProfit = 2 /\ prices[0] = 1

\* C4: a call with n = 0 ends in EmptyInputError at once: no element of
\* prices is read and no buy/sell result is produced.
C4_EmptyInputIsError ==
    (n = 0 /\ pc # "call") =>
        /\ outcome = "EmptyInputError"
        /\ reads = {}
        /\ writes = {}

\* C5: a non-increasing sequence (a single element and all-equal values
\* included) gives buyTime = sellTime = 0 and profit 0, as a normal return.
C5_NonIncreasingGivesZero ==
    (NonEmpty /\ NonIncreasing /\ Returned) =>
        /\ buyTime = 0
        /\ sellTime = 0
        /\ maxProfit = 0
        /\ outcome = "returned"

C5_Witness ==
    /\ Returned /\ n = 4 /\ NonIncreasing
    /\ prices[0] = 2 /\ prices[3] = 0
    /\ buyTime = 0 /\ sellTime = 0

\* C6: when the maximum profit is positive, sellTime is the smallest index
\* at which that maximum is attainable and buyTime is the smallest index
\* holding the minimum of prices[0..sellTime].
C6_EarliestIndicesOnTies ==
    (NonEmpty /\ Returned /\ MaxOf(PairProfits(n-1)) > 0) =>
        LET best == MaxOf(PairProfits(n-1))
        IN  /\ sellTime = MinOf({ s \in 0..(n-1) :
                                    \E b \in 0..s : prices[s] - prices[b] = best })
            /\ buyTime = MinOf({ b \in 0..sellTime :
                                   prices[b] = MinOf({ prices[k] : k \in 0..sellTime }) })

\* [1,2,1,2]: the earliest of the equally good pairs is returned.
C6_Witness ==
    /\ Returned /\ n = 4
    /\ prices[0] = 1 /\ prices[1] = 2 /\ prices[2] = 1 /\ prices[3] = 2
    /\ buyTime = 0 /\ sellTime = 1 /\ maxProfit = 1

\* C7: whenever main computes the percentage gain of line 84, the divisor
\* prices[buyTime] is not 0.
C7_DivisorNonZero ==
    (pc = "best") => divisor # 0

\* C8: the finder leaves every element of prices unchanged and stores only
\* through the two out-parameters.
C8_InputUnchanged ==
    [][ /\ prices' = prices
        /\ writes' \subseteq {"*buyTime", "*sellTime"} ]_vars

C8_Witness ==
    /\ Returned /\ n = 4
    /\ writes = {"*buyTime", "*sellTime"}
    /\ sellTime = 3 /\ buyTime = 2
    /\ reads = 0..3

\* C9: for a non-empty series main takes the buyTime < sellTime branch
\* exactly when some pair b < s has prices[s] > prices[b]; equivalently the
\* finder returns buyTime < sellTime iff its profit is > 0.
C9_BestPrintedIffProfitable ==
    (NonEmpty /\ Returned) =>
        LET profitable == \E b \in 0..(n-1) : \E s \in (b+1)..(n-1) :
                              prices[s] > prices[b]
        IN  /\ (buyTime < sellTime) <=> profitable
            /\ (buyTime < sellTime) <=> (maxProfit > 0)
            /\ (pc = "best") => profitable
            /\ (pc = "none") => ~profitable

C9_Witness ==
    /\ pc = "best" /\ printed = "best" /\ n = 3
    /\ prices[0] = 2 /\ prices[1] = 1 /\ prices[2] = 2

\* The state of the scan once the indices 1..k have been processed.
ScanInv(k) ==
    /\ minPrice = MinOf({ prices[j] : j \in 0..k })
    /\ minTime = MinOf({ j \in 0..k : prices[j] = minPrice })
    /\ maxProfit = MaxOf(PairProfits(k))
    /\ visited = [j \in 1..k |-> j]

LoopInv ==
    /\ (NonEmpty /\ pc = "loop") => (i - 1 <= n - 1 /\ ScanInv(i - 1))
    /\ (NonEmpty /\ Returned) => ScanInv(n - 1)

\* C10: after the iteration for index i, minPrice is the minimum of
\* prices[0..i], minTime the smallest index holding it and maxProfit the
\* maximum profit over the pairs 0 <= b <= s <= i; the loop visits 1..n-1
\* once each in increasing order and then terminates.
C10_LoopInvariant ==
    /\ []LoopInv
    /\ <>(pc = "ret")

C10_Witness ==
    /\ pc = "loop" /\ n = 4 /\ i = 3
    /\ visited = <<1, 2>>
    /\ minTime = 1 /\ prices[1] = prices[2] /\ prices[0] > prices[1]

====
